---- MODULE Spec2Model ----
(***************************************************************************)
(* VexenContainer (src/vexen_core/container.py): the lifecycle of the      *)
(* dependency-injection container that brings up vexen-user, vexen-rbac    *)
(* and vexen-auth, exposes them through three accessors, and closes them.  *)
(*                                                                         *)
(* The three subsystems are external collaborators: their init() and       *)
(* close() are awaited by the container and may either return or raise.    *)
(* Every await is a suspension point, so each subsystem call is split in   *)
(* the step that starts it and the step in which it returns or raises.     *)
(* Lifecycle calls (init, close, async with) are issued one at a time;     *)
(* accessor reads may happen in any state, also while a lifecycle call is  *)
(* suspended.                                                              *)
(***************************************************************************)
EXTENDS Integers, Sequences, FiniteSets, Bags, TLC

\* ---------------------------------------------------------------- bounds
MaxCalls == 3     \* lifecycle calls a caller issues: init(), close(), async with
MaxObs == 2       \* accessor reads recorded between two lifecycle steps

\* ------------------------------------------------------------- constants
\* Python's None in a slot; instance ids start at 1.
None == 0

\* No exception.
NoExc == "none"

\* The two results of an accessor: it raises RuntimeError("VexenContainer not
\* initialized. Call await init() first."), or it returns the slot's instance.
NotInitialized == [raised |-> "RuntimeError: not initialized", val |-> None]
Returned(x) == [raised |-> NoExc, val |-> x]

DefaultAlgorithm == "HS256"
DefaultEcho == FALSE
DefaultPoolSize == 5
DefaultMaxOverflow == 10
DefaultAccessTokenExpiresMinutes == 15
DefaultRefreshTokenExpiresDays == 30

\* VexenConfig(database_url, secret_key, ...): the dataclass constructor.
VexenConfig(url, secret, alg, echo, pool) ==
    [database_url |-> url, secret_key |-> secret, algorithm |-> alg,
     echo |-> echo, pool_size |-> pool,
     max_overflow |-> DefaultMaxOverflow,
     access_token_expires_minutes |-> DefaultAccessTokenExpiresMinutes,
     refresh_token_expires_days |-> DefaultRefreshTokenExpiresDays]

\* The configurations a caller passes in this model.
Configs ==
    { VexenConfig("db1", "secret-a", DefaultAlgorithm, DefaultEcho, DefaultPoolSize),
      VexenConfig("db2", "secret-b", "SHA256", TRUE, 7) }

Kinds == {"user", "rbac", "auth"}

VARIABLES
    config,         \* self.config
    _user_system,   \* self._user_system: an instance id or None
    _rbac_system,   \* self._rbac_system
    _auth_system,   \* self._auth_system
    objs,           \* the subsystem instances constructed so far (id = index)
    pc,             \* "idle", "init" or "close": the lifecycle call in flight
    step,           \* which subsystem call the call in flight is awaiting
    scope,          \* async with: "out", "entering", "body", "exiting"
    ret,            \* outcome of the last lifecycle call, none while one is in flight
    scopeRet,       \* what the last async with statement raised to its caller
    obs,            \* accessor reads made since the last lifecycle step (a bag)
    hist            \* history of the run (bookkeeping for the properties)

vars == <<config, _user_system, _rbac_system, _auth_system, objs, pc, step,
          scope, ret, scopeRet, obs, hist>>

slotVars == <<_user_system, _rbac_system, _auth_system>>

\* ------------------------------------------------------------- accessors
user_unchecked == Returned(_user_system)

\* VexenContainer.user
user == IF _user_system = None THEN NotInitialized ELSE Returned(_user_system)

\* VexenContainer.rbac
rbac == IF _rbac_system = None THEN NotInitialized ELSE Returned(_rbac_system)

\* VexenContainer.auth
auth == IF _auth_system = None THEN NotInitialized ELSE Returned(_auth_system)

Accessor(k) == CASE k = "user" -> user [] k = "rbac" -> rbac [] k = "auth" -> auth

Slot(k) == CASE k = "user" -> _user_system
             [] k = "rbac" -> _rbac_system
             [] k = "auth" -> _auth_system

\* ------------------------------------------------- configuration slices
VexenUserConfigWithSecret(c) ==
    [database_url |-> c.database_url, echo |-> c.echo,
     pool_size |-> c.pool_size, max_overflow |-> c.max_overflow,
     secret_key |-> c.secret_key]

\* VexenUserConfig(...) and the keyword arguments VexenUser is built from.
VexenUserConfig(c) ==
    [database_url |-> c.database_url, echo |-> c.echo,
     pool_size |-> c.pool_size, max_overflow |-> c.max_overflow]

\* RBACConfig(...)
RBACConfig(c) ==
    [database_url |-> c.database_url, echo |-> c.echo,
     pool_size |-> c.pool_size, max_overflow |-> c.max_overflow]

\* self._user_system.repository: the data-access surface of one VexenUser
\* instance, identified by the instance it belongs to.
Repository(id) == [repository_of |-> id]

\* AuthConfig(...)
AuthConfig(c, repo) ==
    [database_url |-> c.database_url, secret_key |-> c.secret_key,
     algorithm |-> c.algorithm,
     access_token_expires_minutes |-> c.access_token_expires_minutes,
     refresh_token_expires_days |-> c.refresh_token_expires_days,
     user_repository |-> repo]

\* A subsystem instance right after construction, its init() awaited.
NewInstance(k, slice) ==
    [kind |-> k, cfg |-> slice, st |-> "initializing", closes |-> 0]

\* ------------------------------------------------------- return of a call
NoRet == [op |-> "none", out |-> "none"]

\* __aexit__ returns None, so an exception of the body is never suppressed.
AexitSuppresses == FALSE

\* The async with statement around the lifecycle call that returns with
\* outcome out: a raising __aenter__ skips body and __aexit__; the body runs
\* after __aenter__ returned; after __aexit__ the statement is left.
ScopeAfter(sc, out) ==
    CASE sc = "entering" -> IF out = "ok" THEN "body" ELSE "out"
      [] sc = "exiting"  -> "out"
      [] OTHER           -> sc

\* What the async with statement raises to its caller, once it is left.
ScopeRetAfter(h, sc, out) ==
    CASE sc = "entering" -> IF out = "ok" THEN scopeRet ELSE out
      [] sc = "exiting"  ->
            IF out # "ok" THEN out
            ELSE IF h.bodyExc # NoExc /\ ~AexitSuppresses THEN h.bodyExc
            ELSE "ok"
      [] OTHER           -> scopeRet

HistAfter(h, sc, op, out) ==
    [h EXCEPT
       !.everInitOk = @ \/ (op = "init" /\ out = "ok"),
       !.readyBuilt = IF op = "init" /\ out = "ok" THEN h.built ELSE @,
       !.window = IF op = "init" /\ out = "ok" THEN "ready"
                  ELSE IF op = "close" /\ @ = "closing"
                       THEN (IF out = "ok" THEN "closed" ELSE "close_raised")
                  ELSE @,
       !.bodyRan = @ \/ (sc = "entering" /\ out = "ok")]

\* The lifecycle call op, made with the async with statement in state sc,
\* returns (out = "ok") or raises (out = the error).
Return(h, sc, op, out) ==
    /\ pc' = "idle"
    /\ step' = 0
    /\ ret' = [op |-> op, out |-> out]
    /\ scope' = ScopeAfter(sc, out)
    /\ scopeRet' = ScopeRetAfter(h, sc, out)
    /\ hist' = HistAfter(h, sc, op, out)

\* ------------------------------------------------------------------ init
InitOrderAuthFirst == <<"auth", "rbac", "user">>

InitOrderRbacFirst == <<"rbac", "user", "auth">>

\* The order of the three bring-ups of init().
InitOrder == <<"user", "rbac", "auth">>

\* Lines 59-72, 74-82 and 84-94 up to the await: derive the slice, construct
\* the subsystem, store it in its slot and call its init().
BringUp(k, o) ==
    LET id == Len(o) + 1 IN
    CASE k = "user" ->
            /\ objs' = Append(o, NewInstance("user", VexenUserConfig(config)))
            /\ _user_system' = id
            /\ UNCHANGED <<_rbac_system, _auth_system>>
      [] k = "rbac" ->
            /\ objs' = Append(o, NewInstance("rbac", RBACConfig(config)))
            /\ _rbac_system' = id
            /\ UNCHANGED <<_user_system, _auth_system>>
      [] k = "auth" ->
            /\ objs' = Append(o, NewInstance("auth",
                                  AuthConfig(config, Repository(_user_system))))
            /\ _auth_system' = id
            /\ UNCHANGED <<_user_system, _rbac_system>>

NoBuilt == [k \in Kinds |-> None]

\* init() is called: it runs up to its first await.
InitBegin(h) ==
    /\ BringUp(InitOrder[1], objs)
    /\ pc' = "init"
    /\ step' = 1
    /\ ret' = NoRet
    /\ obs' = EmptyBag
    /\ hist' = [h EXCEPT !.everInit = TRUE,
                         !.window = IF @ = "ready" THEN "reinit" ELSE @,
                         !.built = [NoBuilt EXCEPT ![InitOrder[1]] = Len(objs) + 1]]
    /\ UNCHANGED config

\* await container.init()
InitCall ==
    /\ pc = "idle"
    /\ scope \in {"out", "body"}
    /\ hist.calls < MaxCalls
    /\ InitBegin([hist EXCEPT !.calls = @ + 1])
    /\ UNCHANGED <<scope, scopeRet>>

\* The awaited subsystem init() returns: init() goes on to the next
\* bring-up, or returns after the third.
SubInitOk ==
    /\ pc = "init"
    /\ LET id == Slot(InitOrder[step])
           o == [objs EXCEPT ![id].st = "ready"]
       IN IF step < Len(InitOrder)
          THEN /\ BringUp(InitOrder[step + 1], o)
               /\ pc' = "init"
               /\ step' = step + 1
               /\ hist' = [hist EXCEPT !.built[InitOrder[step + 1]] = Len(o) + 1]
               /\ UNCHANGED <<ret, scope, scopeRet>>
          ELSE /\ objs' = o
               /\ UNCHANGED slotVars
               /\ Return(hist, scope, "init", "ok")
    /\ obs' = EmptyBag
    /\ UNCHANGED config

SubInitFailSwallowed ==
    /\ pc = "init"
    /\ LET o == [objs EXCEPT ![Slot(InitOrder[step])].st = "init_failed"]
       IN IF step < Len(InitOrder)
          THEN /\ BringUp(InitOrder[step + 1], o)
               /\ pc' = "init"
               /\ step' = step + 1
               /\ hist' = [hist EXCEPT !.built[InitOrder[step + 1]] = Len(o) + 1]
               /\ UNCHANGED <<ret, scope, scopeRet>>
          ELSE /\ objs' = o
               /\ UNCHANGED slotVars
               /\ Return(hist, scope, "init", "ok")
    /\ obs' = EmptyBag
    /\ UNCHANGED config

\* The awaited subsystem init() raises: the exception leaves init() as it is.
SubInitFail ==
    /\ pc = "init"
    /\ objs' = [objs EXCEPT ![Slot(InitOrder[step])].st = "init_failed"]
    /\ Return(hist, scope, "init", "InitError")
    /\ obs' = EmptyBag
    /\ UNCHANGED <<config, slotVars>>

\* ----------------------------------------------------------------- close
CloseOrderForward == <<"user", "rbac", "auth">>

\* The order of the three tests of close().
CloseOrder == <<"auth", "rbac", "user">>

NextCloseUntested(i) == IF i <= Len(CloseOrder) THEN i ELSE 0

\* The next "if self._x_system:" test of close() that passes, from test i on
\* (0: none does).
NextClose(i) ==
    LET S == {j \in i..Len(CloseOrder) : Slot(CloseOrder[j]) # None}
    IN IF S = {} THEN 0 ELSE CHOOSE j \in S : \A m \in S : j <= m

\* close() runs from its i-th test to its next await, or to its end.
CloseFrom(i, h, sc) ==
    LET j == NextClose(i) IN
    IF j = 0
    THEN /\ objs' = objs
         /\ Return(h, sc, "close", "ok")
    ELSE LET id == Slot(CloseOrder[j]) IN
         /\ objs' = [objs EXCEPT ![id].closes = @ + 1]
         /\ pc' = "close"
         /\ step' = j
         /\ ret' = NoRet
         /\ scope' = sc
         /\ scopeRet' = scopeRet
         /\ hist' = [h EXCEPT !.closeLog =
                        Append(@, [ev |-> "start", kind |-> CloseOrder[j], id |-> id])]

\* close() is called: it runs up to its first await.
CloseBegin(h, sc) ==
    /\ CloseFrom(1, [h EXCEPT !.scopeCloses = IF sc = "out" THEN @ ELSE @ + 1,
                       !.closeLog = <<>>,
                       !.closeFromReady = (h.window = "ready"),
                       !.window = IF @ \in {"ready", "reinit"}
                                  THEN "closing" ELSE @], sc)
    /\ obs' = EmptyBag
    /\ UNCHANGED <<config, slotVars>>

\* await container.close()
CloseCall ==
    /\ pc = "idle"
    /\ scope \in {"out", "body"}
    /\ hist.calls < MaxCalls
    /\ CloseBegin([hist EXCEPT !.calls = @ + 1], scope)

LogEnd(h, e) ==
    [h EXCEPT !.closeLog = Append(@, [ev |-> e, kind |-> CloseOrder[step],
                                      id |-> Slot(CloseOrder[step])])]

\* The awaited subsystem close() returns: close() goes on to its next test.
SubCloseOk ==
    /\ pc = "close"
    /\ CloseFrom(step + 1, LogEnd(hist, "end"), scope)
    /\ obs' = EmptyBag
    /\ UNCHANGED <<config, slotVars>>

\* The awaited subsystem close() raises: the exception leaves close().
SubCloseFail ==
    /\ pc = "close"
    /\ objs' = objs
    /\ Return(LogEnd(hist, "raise"), scope, "close", "CloseError")
    /\ obs' = EmptyBag
    /\ UNCHANGED <<config, slotVars>>

\* ------------------------------------------------------------ async with
\* async with container: __aenter__ calls init().
Enter ==
    /\ pc = "idle"
    /\ scope = "out"
    /\ hist.calls < MaxCalls
    /\ InitBegin([hist EXCEPT !.calls = @ + 1, !.bodyRan = FALSE,
                              !.bodyExc = NoExc, !.exitCloses = 0,
                              !.scopeCloses = 0])
    /\ scope' = "entering"
    /\ scopeRet' = "none"

\* The body of the block ends, normally or by raising: __aexit__ calls close().
BodyEnd ==
    /\ pc = "idle"
    /\ scope = "body"
    /\ \E exc \in {NoExc, "BodyError"} :
          CloseBegin([hist EXCEPT !.bodyExc = exc, !.exitCloses = @ + 1], "exiting")

\* ----------------------------------------------------------- accessor use
\* A caller reads container.user, container.rbac or container.auth.
Access ==
    /\ BagCardinality(obs) < MaxObs
    /\ \E k \in Kinds : obs' = obs (+) SetToBag({[acc |-> k, res |-> Accessor(k)]})
    /\ UNCHANGED <<config, slotVars, objs, pc, step, scope, ret, scopeRet, hist>>

\* --------------------------------------------------------- specification
\* VexenContainer(config): the constructor.
Init ==
    /\ config \in Configs
    /\ _user_system = None
    /\ _rbac_system = None
    /\ _auth_system = None
    /\ objs = <<>>
    /\ pc = "idle"
    /\ step = 0
    /\ scope = "out"
    /\ ret = NoRet
    /\ scopeRet = "none"
    /\ obs = EmptyBag
    /\ hist = [calls |-> 0, everInit |-> FALSE,
               everInitOk |-> FALSE, window |-> "none", built |-> NoBuilt,
               readyBuilt |-> NoBuilt,
               closeLog |-> <<>>, closeFromReady |-> FALSE,
               bodyRan |-> FALSE, bodyExc |-> NoExc, exitCloses |-> 0,
               scopeCloses |-> 0]

Next ==
    \/ InitCall
    \/ SubInitOk
    \/ SubInitFail
    \/ CloseCall
    \/ SubCloseOk
    \/ SubCloseFail
    \/ Enter
    \/ BodyEnd
    \/ Access

Spec == Init /\ [][Next]_vars

\* ----------------------------------------- the slices of any configuration
\* Configurations in which every field of VexenConfig takes two values.
ConfigSpace ==
    { [VexenConfig(url, secret, alg, echo, pool) EXCEPT
          !.max_overflow = over,
          !.access_token_expires_minutes = acc,
          !.refresh_token_expires_days = refr] :
        url \in {"db1", "db2"}, secret \in {"secret-a", "secret-b"},
        alg \in {DefaultAlgorithm, "SHA256"}, echo \in BOOLEAN,
        pool \in {DefaultPoolSize, 7}, over \in {DefaultMaxOverflow, 3},
        acc \in {DefaultAccessTokenExpiresMinutes, 60},
        refr \in {DefaultRefreshTokenExpiresDays, 1} }

\* VexenContainer(config) for any configuration of ConfigSpace.
SliceInit ==
    /\ config \in ConfigSpace
    /\ _user_system = None
    /\ _rbac_system = None
    /\ _auth_system = None
    /\ objs = <<>>
    /\ pc = "idle"
    /\ step = 0
    /\ scope = "out"
    /\ ret = NoRet
    /\ scopeRet = "none"
    /\ obs = EmptyBag
    /\ hist = [calls |-> 0, everInit |-> FALSE,
               everInitOk |-> FALSE, window |-> "none", built |-> NoBuilt,
               readyBuilt |-> NoBuilt,
               closeLog |-> <<>>, closeFromReady |-> FALSE,
               bodyRan |-> FALSE, bodyExc |-> NoExc, exitCloses |-> 0,
               scopeCloses |-> 0]

\* init() calls only: the steps that derive slices and construct subsystems.
SliceNext ==
    \/ InitCall
    \/ SubInitOk
    \/ SubInitFail

SliceSpec == SliceInit /\ [][SliceNext]_vars

\* ------------------------------------------------------------ properties
Reads == BagToSet(obs)

AllReadsRaise == \A r \in Reads : r.res = NotInitialized

\* C1: on a container on which init() was never called, every read of the
\* user, rbac and auth accessors raises the not-initialized RuntimeError; none
\* returns None.
C1_FreshAccessRaises == ~hist.everInit => AllReadsRaise

C1_Witness ==
    /\ ~hist.everInit
    /\ \E r1, r2 \in Reads :
          /\ r1.acc # r2.acc
          /\ r1.res = NotInitialized
          /\ r2.res = NotInitialized

\* C2 (as claimed): once init() has returned successfully and until a close()
\* is called, every accessor read returns a handle that is not None, and
\* every read of an accessor returns the same instance: the one that this
\* init() constructed for it (hist.readyBuilt), also when init() is called
\* again in between.
C2_ReadyAccessStable ==
    hist.window \in {"ready", "reinit"} =>
        \A r \in Reads :
            /\ r.res.raised = NoExc
            /\ r.res.val # None
            /\ r.res = Returned(hist.readyBuilt[r.acc])

\* C3 (as claimed): after a successful init() followed by close(), every
\* accessor read raises the not-initialized error until a later init()
\* succeeds.
C3_ClosedAccessRaises == hist.window = "closed" => AllReadsRaise

\* C4 (as claimed): as long as no init() call has completed successfully,
\* every accessor read raises the not-initialized error, also while init() is
\* suspended in a bring-up and after an init() that failed.
C4_NoPartialReady == ~hist.everInitOk => AllReadsRaise

\* C5 (as claimed): when init() raises a bring-up failure to its caller,
\* close() has been invoked on every subsystem that this init() had brought
\* up.
C5_FailedInitClosesBroughtUp ==
    ret = [op |-> "init", out |-> "InitError"] =>
        \A k \in Kinds :
            (hist.built[k] # None /\ objs[hist.built[k]].st = "ready")
                => objs[hist.built[k]].closes >= 1

\* The subsystem kinds (a, b) such that a is constructed after b.
ClosesBefore == {<<"auth", "rbac">>, <<"rbac", "user">>, <<"auth", "user">>}

\* C6: in a close() call on a READY container, a subsystem's close() is
\* started only after the close() of every subsystem constructed after it has
\* completed (auth before rbac before user), and no subsystem is closed twice
\* in the call.
C6_ReverseTeardownOrder ==
    hist.closeFromReady =>
        \A j \in DOMAIN hist.closeLog :
            hist.closeLog[j].ev = "start" =>
                /\ \A p \in ClosesBefore :
                      p[2] = hist.closeLog[j].kind =>
                          \E i \in 1..(j - 1) :
                              /\ hist.closeLog[i].ev = "end"
                              /\ hist.closeLog[i].kind = p[1]
                              /\ objs[hist.closeLog[i].id].kind = p[1]
                /\ \A i \in 1..(j - 1) :
                      hist.closeLog[i].ev = "start" =>
                          hist.closeLog[i].kind # hist.closeLog[j].kind

C6_Witness ==
    /\ hist.closeFromReady
    /\ ret = [op |-> "close", out |-> "ok"]
    /\ Len(hist.closeLog) = 6
    /\ hist.closeLog[1].kind = "auth"
    /\ hist.closeLog[6] = [ev |-> "end", kind |-> "user", id |-> _user_system]

\* C7 (as claimed): when a close() call of the container is over, close() has
\* been invoked in that call on every populated subsystem, whether or not
\* another subsystem's close() failed.
C7_CloseAttemptsAll ==
    ret.op = "close" =>
        \A k \in Kinds :
            Slot(k) # None =>
                \E i \in DOMAIN hist.closeLog :
                    hist.closeLog[i].ev = "start" /\ hist.closeLog[i].id = Slot(k)

\* C8 (as claimed): the container's close() always completes normally; no
\* failure of a subsystem's close() is raised to the caller of close().
C8_CloseNeverRaises == ret.op = "close" => ret.out = "ok"

\* C9 (as claimed): when an async with block that was entered is left, close()
\* has been invoked exactly once by the exit, and an error raised by the body
\* is the error the caller receives.
C9_ScopeExitClosesOnce ==
    (hist.bodyRan /\ scope = "out" /\ scopeRet # "none") =>
        /\ hist.exitCloses = 1
        /\ hist.bodyExc = "BodyError" => scopeRet = "BodyError"

\* C10 (as claimed): when init() fails during scope entry, the body is not
\* executed, close() is invoked on the container, and the failure of init()
\* is raised to the caller.
C10_FailedEntryCloses ==
    (scope = "out" /\ ~hist.bodyRan /\ scopeRet # "none") =>
        /\ hist.scopeCloses >= 1
        /\ scopeRet = "InitError"

\* C11: close() on a container on which init() was never called returns
\* normally without suspending, invokes no subsystem close() and leaves the
\* three slots empty, however often it is called.
C11_CloseBeforeInitNoOp ==
    ~hist.everInit =>
        /\ pc = "idle"
        /\ ret.op = "close" => ret.out = "ok"
        /\ hist.closeLog = <<>>
        /\ objs = <<>>
        /\ _user_system = None /\ _rbac_system = None /\ _auth_system = None

\* close() has been called twice on the container before any init().
C11_Witness ==
    /\ ~hist.everInit
    /\ hist.calls = 2
    /\ ret = [op |-> "close", out |-> "ok"]
    /\ _user_system = None /\ _rbac_system = None /\ _auth_system = None

\* The instances the latest init() call constructed, in construction order.
BuiltSeq == [j \in 1..3 |-> hist.built[<<"user", "rbac", "auth">>[j]]]

\* C12: when an init() call is over, it has raised InitError exactly if a
\* subsystem init() of the call failed; the failed subsystem is then the last
\* instance the call constructed (it is not constructed or initialized again
\* and no later subsystem is brought up), and every earlier one is
\* initialized.
C12_BringUpFailurePropagates ==
    ret.op = "init" =>
        IF ret.out = "ok"
        THEN \A j \in 1..3 : BuiltSeq[j] # None /\ objs[BuiltSeq[j]].st = "ready"
        ELSE /\ ret.out = "InitError"
             /\ \E k \in 1..3 :
                   /\ BuiltSeq[k] = Len(objs)
                   /\ objs[BuiltSeq[k]].st = "init_failed"
                   /\ \A j \in 1..(k - 1) :
                         BuiltSeq[j] # None /\ objs[BuiltSeq[j]].st = "ready"
                   /\ \A j \in (k + 1)..3 : BuiltSeq[j] = None

\* init() raised because the second bring-up (rbac) failed.
C12_Witness ==
    /\ ret = [op |-> "init", out |-> "InitError"]
    /\ BuiltSeq[2] = Len(objs)
    /\ objs[BuiltSeq[2]].st = "init_failed"
    /\ objs[BuiltSeq[1]].st = "ready"
    /\ BuiltSeq[3] = None

\* C13: within an init() call a subsystem is constructed only after every
\* subsystem that precedes it in the order user, rbac, auth has been
\* constructed by the call and its init() has returned; at most one subsystem
\* init() is in progress at any time.
C13_SequentialBringUp ==
    /\ \A p \in ClosesBefore :
          hist.built[p[1]] # None =>
              /\ hist.built[p[2]] # None
              /\ hist.built[p[2]] < hist.built[p[1]]
              /\ objs[hist.built[p[2]]].st = "ready"
    /\ Cardinality({i \in DOMAIN objs : objs[i].st = "initializing"}) <= 1

\* init() is suspended in the init() of auth, user and rbac being initialized.
C13_Witness ==
    /\ pc = "init"
    /\ step = 3
    /\ objs[hist.built["auth"]].st = "initializing"
    /\ objs[hist.built["user"]].st = "ready"
    /\ objs[hist.built["rbac"]].st = "ready"

\* C14 (as claimed): a close() that follows an init() call that failed
\* completes without error and invokes close() on every subsystem that the
\* failed init() had brought up.
C14_CloseAfterFailedInitSafe ==
    (/\ ret.op = "close"
     /\ \E k \in Kinds :
           hist.built[k] # None /\ objs[hist.built[k]].st = "init_failed") =>
        /\ ret.out = "ok"
        /\ \A k \in Kinds :
              (hist.built[k] # None /\ objs[hist.built[k]].st = "ready") =>
                  \E i \in DOMAIN hist.closeLog :
                      /\ hist.closeLog[i].ev = "start"
                      /\ hist.closeLog[i].id = hist.built[k]

\* C15: in every state, also while init() is suspended and after a failed
\* init(), the auth slot is populated only if the user slot is, and the rbac
\* slot is populated only if the user slot is.
C15_SlotsPopulatedInOrder ==
    /\ _auth_system # None => _user_system # None
    /\ _rbac_system # None => _user_system # None

\* init() failed at its third bring-up: all three slots are populated.
C15_Witness ==
    /\ ret = [op |-> "init", out |-> "InitError"]
    /\ _auth_system # None
    /\ objs[_auth_system].st = "init_failed"
    /\ _rbac_system # None
    /\ _user_system # None

\* C16 (as claimed): whenever the auth slot is populated, the user_repository
\* its instance was constructed with is the repository of the instance in the
\* user slot, for any sequence of init() and close() calls.
C16_AuthSharesLiveRepository ==
    _auth_system # None =>
        objs[_auth_system].cfg.user_repository = Repository(_user_system)

PoolSliceFields == {"database_url", "echo", "pool_size", "max_overflow"}

AuthSliceFields ==
    {"database_url", "secret_key", "algorithm", "access_token_expires_minutes",
     "refresh_token_expires_days", "user_repository"}

DiffersOnlyInSecret(c1, c2) ==
    c1 # c2 /\ [c1 EXCEPT !.secret_key = c2.secret_key] = c2

\* C17: every user and rbac instance is constructed from exactly database_url,
\* echo, pool_size and max_overflow, every auth instance from exactly
\* database_url, secret_key, algorithm, the two token lifetimes and the
\* repository of a user instance; every field taken from the configuration has
\* the configuration's value; and a configuration that differs only in
\* secret_key gives the user and rbac subsystems the same slice.
C17_SlicesAreProjections ==
    \A i \in DOMAIN objs :
        LET o == objs[i] IN
        IF o.kind \in {"user", "rbac"}
        THEN /\ DOMAIN o.cfg = PoolSliceFields
             /\ \A f \in PoolSliceFields : o.cfg[f] = config[f]
             /\ \A c2 \in ConfigSpace :
                   DiffersOnlyInSecret(config, c2) =>
                       /\ o.kind = "user" => VexenUserConfig(c2) = o.cfg
                       /\ o.kind = "rbac" => RBACConfig(c2) = o.cfg
        ELSE /\ DOMAIN o.cfg = AuthSliceFields
             /\ \A f \in AuthSliceFields \ {"user_repository"} : o.cfg[f] = config[f]
             /\ \E u \in DOMAIN objs :
                   objs[u].kind = "user" /\ o.cfg.user_repository = Repository(u)

\* All three subsystems were constructed from a configuration without any
\* default value.
C17_Witness ==
    /\ Len(objs) >= 3
    /\ objs[3].kind = "auth"
    /\ objs[3].cfg.secret_key = "secret-b"
    /\ objs[3].cfg.algorithm # DefaultAlgorithm
    /\ objs[3].cfg.access_token_expires_minutes # DefaultAccessTokenExpiresMinutes
    /\ objs[3].cfg.refresh_token_expires_days # DefaultRefreshTokenExpiresDays
    /\ objs[1].cfg.pool_size # DefaultPoolSize
    /\ objs[1].cfg.max_overflow # DefaultMaxOverflow
    /\ objs[2].cfg.echo # DefaultEcho

\* C18 (as claimed): once a close() call has returned and no init() has been
\* called since, close() has been invoked on every subsystem instance whose
\* init() the container ever completed.
C18_NoSubsystemLeaked ==
    ret = [op |-> "close", out |-> "ok"] =>
        \A i \in DOMAIN objs : objs[i].st = "ready" => objs[i].closes >= 1

\* C19 (as claimed): the container invokes close() on a subsystem instance at
\* most once, for any sequence of init(), close() and async with.
C19_NoDoubleClose == \A i \in DOMAIN objs : objs[i].closes <= 1

\* C20 (as claimed): the container invokes close() only on a subsystem
\* instance whose init() has completed successfully.
C20_ClosesOnlyInitialized ==
    \A i \in DOMAIN objs : objs[i].closes >= 1 => objs[i].st = "ready"

====
